---- MODULE Spec2Model ----
(***************************************************************************)
(* Debt dynamics simulator (src/debt_app.py).                              *)
(*                                                                         *)
(* The script reads six percentages from the sidebar widgets, converts     *)
(* them to fractions, projects the debt-to-GDP ratio over 20 years with    *)
(*     d_t = [(1+i) / ((1+g)(1+pi))] * d_{t-1} + (s - tau)                 *)
(* and derives the displayed metrics and the sustainability message.       *)
(*                                                                         *)
(* Numbers.  The script computes in Python floats (IEEE-754 binary64).     *)
(* The model computes the same values: every +, -, * and / of the script   *)
(* is one float operation of the model, rounded to nearest, ties to even.  *)
(* Overflow to infinity, gradual underflow, the signed zeros and NaN are    *)
(* those of binary64: the initial debt is a number_input without a maximum *)
(* (line 20), so that values at both ends of the float range can be typed. *)
(***************************************************************************)
EXTENDS Integers, Sequences, FiniteSets

(***************************************************************************)
(* Natural numbers of any size: little-endian sequences of 14-bit limbs,   *)
(* without a high zero limb; <<>> is 0.                                    *)
(***************************************************************************)
Limb == 16384
LimbBits == 14

Abs(n) == IF n < 0 THEN -n ELSE n

RECURSIVE Pow2(_)
Pow2(n) ==
    IF n = 0 THEN 1 ELSE CHOOSE v \in {2 * Pow2(m) : m \in {n - 1}} : TRUE

RECURSIVE SmallBitLen(_)
SmallBitLen(n) ==
    IF n = 0 THEN 0
    ELSE CHOOSE v \in {1 + SmallBitLen(m) : m \in {n \div 2}} : TRUE

RECURSIVE BFromInt(_)
BFromInt(n) ==
    IF n = 0 THEN <<>>
    ELSE CHOOSE v \in {<<n % Limb>> \o BFromInt(m) : m \in {n \div Limb}} : TRUE

Digit(x, k) == IF k <= Len(x) THEN x[k] ELSE 0

RECURSIVE BTrim(_)
BTrim(x) ==
    IF x = <<>> THEN x
    ELSE IF x[Len(x)] = 0
         THEN CHOOSE v \in {BTrim(a) : a \in {SubSeq(x, 1, Len(x) - 1)}} : TRUE
    ELSE x

RECURSIVE BAddFrom(_, _, _, _)
BAddFrom(x, y, k, c) ==
    IF k > Len(x) /\ k > Len(y) THEN (IF c = 0 THEN <<>> ELSE <<c>>)
    ELSE CHOOSE v \in
           {<<t % Limb>> \o BAddFrom(a, b, k1, c1) :
               a \in {x}, b \in {y},
               t \in {Digit(x, k) + Digit(y, k) + c}, k1 \in {k + 1},
               c1 \in {(Digit(x, k) + Digit(y, k) + c) \div Limb}} : TRUE

BAdd(x, y) == CHOOSE v \in {BAddFrom(a, b, 1, 0) : a \in {x}, b \in {y}} : TRUE

RECURSIVE BSubFrom(_, _, _, _)
BSubFrom(x, y, k, b) ==
    IF k > Len(x) THEN <<>>
    ELSE CHOOSE v \in
           {<<(t + Limb) % Limb>> \o BSubFrom(a, c, k1, b1) :
               a \in {x}, c \in {y},
               t \in {x[k] - Digit(y, k) - b}, k1 \in {k + 1},
               b1 \in {IF x[k] - Digit(y, k) - b < 0 THEN 1 ELSE 0}} : TRUE

\* x - y for x >= y
BSub(x, y) ==
    CHOOSE v \in {BTrim(w) : w \in {BSubFrom(a, b, 1, 0) : a \in {x}, b \in {y}}} : TRUE

RECURSIVE BCmpFrom(_, _, _)
BCmpFrom(x, y, k) ==
    IF k = 0 THEN 0
    ELSE IF x[k] < y[k] THEN -1
    ELSE IF x[k] > y[k] THEN 1
    ELSE CHOOSE v \in {BCmpFrom(a, b, k1) :
                          a \in {x}, b \in {y}, k1 \in {k - 1}} : TRUE

CmpV(x, y) ==
    IF Len(x) < Len(y) THEN -1
    ELSE IF Len(x) > Len(y) THEN 1
    ELSE BCmpFrom(x, y, Len(x))

\* -1, 0 or 1 as x <, =, > y
BCmp(x, y) == CHOOSE v \in {CmpV(a, b) : a \in {x}, b \in {y}} : TRUE

RECURSIVE BMulSmallFrom(_, _, _, _)
BMulSmallFrom(x, m, k, c) ==
    IF k > Len(x) THEN (IF c = 0 THEN <<>> ELSE <<c>>)
    ELSE CHOOSE v \in
           {<<t % Limb>> \o BMulSmallFrom(a, n, k1, c1) :
               a \in {x}, n \in {m},
               t \in {x[k] * m + c}, k1 \in {k + 1},
               c1 \in {(x[k] * m + c) \div Limb}} : TRUE

\* x * m for 0 <= m <= Limb
BMulSmall(x, m) ==
    CHOOSE v \in {IF n = 0 THEN <<>> ELSE BMulSmallFrom(a, n, 1, 0) :
                     a \in {x}, n \in {m}} : TRUE

\* x * Limb^q
BShiftLimbs(x, q) ==
    CHOOSE v \in {IF a = <<>> THEN a ELSE [k \in 1 .. q |-> 0] \o a :
                     a \in {x}} : TRUE

RECURSIVE BMulFrom(_, _, _)
BMulFrom(x, y, k) ==
    IF k > Len(y) THEN <<>>
    ELSE CHOOSE v \in
           {BAdd(BShiftLimbs(BMulSmall(a, b[k]), k - 1), BMulFrom(a, b, k1)) :
               a \in {x}, b \in {y}, k1 \in {k + 1}} : TRUE

BMul(x, y) == CHOOSE v \in {BMulFrom(a, b, 1) : a \in {x}, b \in {y}} : TRUE

\* x * 2^n
BShl(x, n) == BShiftLimbs(BMulSmall(x, Pow2(n % LimbBits)), n \div LimbBits)

RECURSIVE BDivSmallFrom(_, _, _, _)
BDivSmallFrom(x, m, k, r) ==
    IF k = 0 THEN <<>>
    ELSE CHOOSE v \in
           {BDivSmallFrom(a, n, k1, r1) \o <<t \div n>> :
               a \in {x}, n \in {m},
               t \in {r * Limb + x[k]}, k1 \in {k - 1},
               r1 \in {(r * Limb + x[k]) % m}} : TRUE

ShrV(x, n) ==
    BTrim(BDivSmallFrom(SubSeq(x, n \div LimbBits + 1, Len(x)),
                        Pow2(n % LimbBits),
                        Len(x) - n \div LimbBits, 0))

\* x \div 2^n
BShr(x, n) ==
    CHOOSE v \in {IF Len(a) <= k \div LimbBits THEN <<>> ELSE ShrV(a, k) :
                     a \in {x}, k \in {n}} : TRUE

BitLenV(x) ==
    IF x = <<>> THEN 0
    ELSE LimbBits * (Len(x) - 1) + SmallBitLen(x[Len(x)])

BBitLen(x) == CHOOSE v \in {BitLenV(a) : a \in {x}} : TRUE

BIsOdd(x) == x # <<>> /\ x[1] % 2 = 1

(***************************************************************************)
(* IEEE-754 binary64 values (Python float): <<sign, mantissa, exponent>>.  *)
(*   finite     sign 1 or -1, value sign * mantissa * 2^exponent;          *)
(*              normal numbers have a 53-bit mantissa and an exponent in   *)
(*              MinExp .. MaxExp, subnormal numbers a shorter mantissa at  *)
(*              exponent MinExp, the two zeros the mantissa <<>> at MinExp *)
(*   infinite   sign 1 or -1, mantissa <<>>, exponent MaxExp + 1           *)
(*   NaN        sign 0, mantissa <<>>, exponent MaxExp + 1                 *)
(* Every operation rounds its exact result to the nearest value, ties to   *)
(* even, with gradual underflow and overflow to infinity.                  *)
(***************************************************************************)
MantissaBits == 53
MinExp == -1074
MaxExp == 971

NaN == <<0, <<>>, MaxExp + 1>>

Inf(sg) == <<sg, <<>>, MaxExp + 1>>

Zero(sg) == <<sg, <<>>, MinExp>>

\* 0.0
FZero == Zero(1)

IsNaN(x) == x[1] = 0

IsInf(x) == x[1] # 0 /\ x[3] > MaxExp

\* x == 0 (true of 0.0 and of -0.0)
FIsZero(x) == x[2] = <<>> /\ x[3] <= MaxExp

Max(m, n) == IF m < n THEN n ELSE m

Min(m, n) == IF m < n THEN m ELSE n

\* a rounded result: infinite when its exponent is above the range
Finite(sg, q, e) == IF e > MaxExp THEN Inf(sg) ELSE <<sg, q, e>>

\* the round-up decision and the carry out of the mantissa
RoundUp(sg, q, e, c) ==
    IF c > 0 \/ (c = 0 /\ BIsOdd(q))
    THEN CHOOSE v \in {IF BBitLen(q1) > MantissaBits
                          THEN Finite(sg, BShr(q1, 1), e + 1)
                          ELSE Finite(sg, q1, e) : q1 \in {BAdd(q, <<1>>)}} : TRUE
    ELSE Finite(sg, q, e)

\* n has sh > 0 bits too many: q is n without them, c compares the bits
\* dropped with one half
RoundDrop(sg, n, e, sh, q) ==
    CHOOSE v \in
      {RoundUp(sg, q, e + sh, c) :
          c \in {BCmp(BShl(BSub(n, BShl(q, sh)), 1), BShl(<<1>>, sh))}} : TRUE

RoundV(sg, n, e, sh) ==
    IF sh <= 0 THEN Finite(sg, BShl(n, -sh), e + sh)
    ELSE CHOOSE v \in {RoundDrop(sg, n, e, sh, q) : q \in {BShr(n, sh)}} : TRUE

\* the low bits to drop are those beyond 53 and those below 2^MinExp
RoundN(sg, n, e) ==
    IF n = <<>> THEN Zero(sg)
    ELSE CHOOSE v \in
           {RoundV(sg, n, e, sh) :
               sh \in {Max(BBitLen(n) - MantissaBits, MinExp - e)}} : TRUE

\* the float nearest to sg * n * 2^e
FRound(sg, n, e) == CHOOSE v \in {RoundN(sg, a, e) : a \in {n}} : TRUE

\* int -> float
FromInt(n) == FRound(IF n < 0 THEN -1 ELSE 1, BFromInt(Abs(n)), 0)

FNeg(x) == CHOOSE v \in {<<-a[1], a[2], a[3]>> : a \in {x}} : TRUE

\* magnitudes nx >= ny or not, at the common exponent e
AddAligned(sx, nx, sy, ny, e) ==
    IF sx = sy THEN FRound(sx, BAdd(nx, ny), e)
    ELSE IF BCmp(nx, ny) = 0 THEN FZero
    ELSE IF BCmp(nx, ny) > 0 THEN FRound(sx, BSub(nx, ny), e)
    ELSE FRound(sy, BSub(ny, nx), e)

\* the position above the highest bit of a finite x # 0
TopBit(x) == x[3] + BBitLen(x[2])

\* x + y for finite non-zero x and y.  An operand that lies wholly more
\* than two bits below the last mantissa bit of the other is less than a
\* quarter of the distance to the neighbouring floats, and the sum rounds
\* to the other operand
AddFinite(x, y, tx, ty) ==
    IF tx - ty > MantissaBits + 2 THEN x
    ELSE IF ty - tx > MantissaBits + 2 THEN y
    ELSE CHOOSE v \in
           {AddAligned(x[1], nx, y[1], ny, Min(x[3], y[3])) :
               nx \in {BShl(x[2], x[3] - Min(x[3], y[3]))},
               ny \in {BShl(y[2], y[3] - Min(x[3], y[3]))}} : TRUE

AddV(x, y) ==
    IF IsNaN(x) \/ IsNaN(y) THEN NaN
    ELSE IF IsInf(x) THEN (IF IsInf(y) /\ y[1] # x[1] THEN NaN ELSE x)
    ELSE IF IsInf(y) THEN y
    ELSE IF FIsZero(x) /\ FIsZero(y)
         THEN Zero(IF x[1] = y[1] THEN x[1] ELSE 1)
    ELSE IF FIsZero(x) THEN y
    ELSE IF FIsZero(y) THEN x
    ELSE CHOOSE v \in
           {AddFinite(x, y, tx, ty) :
               tx \in {TopBit(x)}, ty \in {TopBit(y)}} : TRUE

\* float +
FAdd(x, y) == CHOOSE v \in {AddV(a, b) : a \in {x}, b \in {y}} : TRUE

\* float -
FSub(x, y) == FAdd(x, FNeg(y))

MulV(x, y) ==
    IF IsNaN(x) \/ IsNaN(y) THEN NaN
    ELSE IF IsInf(x) \/ IsInf(y)
         THEN (IF FIsZero(x) \/ FIsZero(y) THEN NaN ELSE Inf(x[1] * y[1]))
    ELSE IF FIsZero(x) \/ FIsZero(y) THEN Zero(x[1] * y[1])
    ELSE FRound(x[1] * y[1], BMul(x[2], y[2]), x[3] + y[3])

\* float *
FMul(x, y) == CHOOSE v \in {MulV(a, b) : a \in {x}, b \in {y}} : TRUE

\* the quotient is produced in digits of DigitBits bits
DigitBits == 8
QuotientDigits == 7

RECURSIVE DigitFix(_, _, _)
\* raise the estimated digit d until the remainder r is below y
DigitFix(d, r, y) ==
    IF BCmp(r, y) >= 0
    THEN CHOOSE v \in {DigitFix(d1, r1, b) :
                          d1 \in {d + 1}, r1 \in {BSub(r, y)}, b \in {y}} : TRUE
    ELSE <<d, r>>

\* the digit is estimated from below from the limbs above the third of
\* the scaled remainder rs and of y (y has four limbs)
DigitEstimate(rs, y) ==
    CHOOSE v \in
      {CHOOSE w \in {DigitFix(d, r, y) :
                        r \in {BSub(rs, BMulSmall(y, d))}} : TRUE :
       d \in {(Digit(rs, 4) + Limb * Digit(rs, 5)) \div (y[4] + 1)}} : TRUE

\* <<digit, remainder>> of (r * 2^DigitBits) / y, for r < y
DivDigit(r, y) ==
    CHOOSE v \in {DigitEstimate(rs, y) :
                     rs \in {BMulSmall(r, Pow2(DigitBits))}} : TRUE

RECURSIVE DivDigits(_, _, _, _)
\* n more quotient digits after q, then the sticky bit for a non-zero
\* remainder
DivDigits(r, y, q, n) ==
    IF n = 0 THEN BAdd(BShl(q, 1), IF r = <<>> THEN <<>> ELSE <<1>>)
    ELSE CHOOSE v \in
           {CHOOSE w \in
              {DivDigits(p[2], b, q1, n1) :
                  b \in {y},
                  q1 \in {BAdd(BMulSmall(q, Pow2(DigitBits)), BFromInt(p[1]))},
                  n1 \in {n - 1}} : TRUE :
            p \in {DivDigit(r, y)}} : TRUE

\* twice the quotient of x * 2^(DigitBits * QuotientDigits) by y, plus the
\* sticky bit, for 53-bit x and y
Quotient(x, y) ==
    IF BCmp(x, y) >= 0
    THEN DivDigits(BSub(x, y), y, <<1>>, QuotientDigits)
    ELSE DivDigits(x, y, <<>>, QuotientDigits)

\* the quotient of the mantissas nx and ny once both are shifted to 53
\* bits (lx and ly are the shifts)
DivNormal(sg, nx, ex, lx, ny, ey, ly) ==
    FRound(sg, Quotient(BShl(nx, lx), BShl(ny, ly)),
           (ex - lx) - (ey - ly) - (DigitBits * QuotientDigits + 1))

DivV(x, y) ==
    IF IsNaN(x) \/ IsNaN(y) THEN NaN
    ELSE IF IsInf(x) THEN (IF IsInf(y) THEN NaN ELSE Inf(x[1] * y[1]))
    ELSE IF IsInf(y) \/ FIsZero(x) THEN Zero(x[1] * y[1])
    ELSE CHOOSE v \in
           {DivNormal(x[1] * y[1], x[2], x[3], lx, y[2], y[3], ly) :
               lx \in {MantissaBits - BBitLen(x[2])},
               ly \in {MantissaBits - BBitLen(y[2])}} : TRUE

\* float / for y # 0 (Python raises ZeroDivisionError for y == 0)
FDiv(x, y) == CHOOSE v \in {DivV(a, b) : a \in {x}, b \in {y}} : TRUE

\* x < y for magnitudes
PosLess(x, y) ==
    x[3] < y[3] \/ (x[3] = y[3] /\ BCmp(x[2], y[2]) < 0)

LessV(x, y) ==
    IF IsNaN(x) \/ IsNaN(y) THEN FALSE
    ELSE IF FIsZero(x) /\ FIsZero(y) THEN FALSE
    ELSE IF x[1] # y[1] THEN x[1] < y[1]
    ELSE IF x[1] = 1 THEN PosLess(x, y)
    ELSE PosLess(y, x)

\* float <
FLess(x, y) == CHOOSE v \in {LessV(a, b) : a \in {x}, b \in {y}} : TRUE

\* float <=
FLeq(x, y) ==
    CHOOSE v \in {~IsNaN(a) /\ ~IsNaN(b) /\ ~LessV(b, a) :
                     a \in {x}, b \in {y}} : TRUE

\* the float a decimal literal n/k denotes (4.5 is Dec(45, 10))
Dec(n, k) == FDiv(FromInt(n), FromInt(k))

\* a name not yet bound by the script
Unbound == <<2, <<>>, 0>>

\* the literals 1 and 100 of lines 42-47, 58, 59 and 71
One == FromInt(1)
Hundred == FromInt(100)

(***************************************************************************)
(* Program constants and the widget values explored                        *)
(***************************************************************************)
\* line 50: years = 20
years == 20

\* the crisis threshold of line 132, in percent of GDP
CrisisThreshold == 150

\* line 20: number_input, min 0.0, step 1.0 (whole percents)
InitialDebtValues == {40, 41, 90, 98}

\* lines 25-27: sliders with step 0.1, given in tenths of a percent
\* (i in 0.0..15.0, g in -5.0..10.0, pi in -2.0..15.0)
InterestTenths == {0, 20, 45}
GrowthTenths == {0, 20}
InflationTenths == {0, 25}

\* lines 32-33: sliders with step 0.5, given in halves of a percent
\* (both in 10.0..60.0)
TaxHalves == {45, 60}
SpendingHalves == {45, 47, 56, 66}

\* line 20: the number_input has min_value=0.0 and no max_value, so that
\* any non-negative float can be entered: the smallest positive float
\* (5e-324), the subnormal 1e-320 (2024 * 2^-1074) and the largest float
\* (1.7976931348623157e308)
ExtremeDebtValues ==
    {<<1, <<1>>, MinExp>>,
     <<1, <<2024>>, MinExp>>,
     <<1, BSub(BShl(<<1>>, MantissaBits), <<1>>), MaxExp>>}

\* lines 25-33: the ends of the slider ranges tried with these values
ExtremeInterestTenths == {0, 150}
ExtremeGrowthTenths == {-50, 0}
ExtremeInflationTenths == {-20, 0}
ExtremeTaxHalves == {45, 120}
ExtremeSpendingHalves == {45, 120}

(***************************************************************************)
(* The script's arithmetic, line by line                                   *)
(***************************************************************************)
\* lines 42-47: x = x_pct / 100
ToFraction(x_pct) == FDiv(x_pct, Hundred)

\* line 58: numerator = 1 + i
numerator(ri) == FAdd(One, ri)

\* line 59 with the 1 + of the inflation factor left out
denominator_NoOne(rg, rpi) == FMul(FAdd(One, rg), rpi)

\* line 59 with the growth factor left out
denominator_NoGrowth(rg, rpi) == FAdd(One, rpi)

\* line 59: denominator = (1 + g) * (1 + pi)
denominator(rg, rpi) == FMul(FAdd(One, rg), FAdd(One, rpi))

\* line 62 with the operands exchanged (tau - s)
primary_deficit_Swapped(rs, rtau) == FSub(rtau, rs)

\* line 62: primary_deficit = s - tau
primary_deficit(rs, rtau) == FSub(rs, rtau)

\* line 64 with the result clamped at zero
next_d_Clamped(num, den, cur, deficit) ==
    CHOOSE v \in
      {IF FLess(w, FZero) THEN FZero ELSE w :
          w \in {FAdd(FMul(FDiv(num, den), cur), deficit)}} : TRUE

\* line 64: next_d = (numerator / denominator) * current_d + primary_deficit
next_d(num, den, cur, deficit) == FAdd(FMul(FDiv(num, den), cur), deficit)

\* line 71: x * 100
ToPercent(x) == FMul(x, Hundred)

\* line 71: [x * 100 for x in debt_trajectory]
DebtRatioColumn(traj) == [k \in 1 .. Len(traj) |-> ToPercent(traj[k])]

\* line 52 written as list(range(1, years + 1))
RangeList_FromOne(n) == [k \in 1 .. n |-> k]

\* line 52: list(range(0, years + 1))
RangeList(n) == [k \in 1 .. n + 1 |-> k - 1]

\* lines 108-109: r_real = i_pct - pi_pct ; r_minus_g = r_real - g_pct
InterestGrowthDifferential(pi_, ppi, pg) == FSub(FSub(pi_, ppi), pg)

\* line 115 with the operands exchanged (s_pct - tax_pct)
PrimaryBalance_Swapped(ptax, ps) == FSub(ps, ptax)

\* line 115: primary_bal = tax_pct - s_pct
PrimaryBalance(ptax, ps) == FSub(ptax, ps)

\* line 132 written with >= instead of >
Classify_Inclusive(final, start) ==
    IF FLeq(FromInt(CrisisThreshold), final) THEN "Crisis"
    ELSE IF FLess(start, final) THEN "Rising"
    ELSE "Sustainable"

\* line 134 with the comparison turned around
Classify_Reversed(final, start) ==
    IF FLess(FromInt(CrisisThreshold), final) THEN "Crisis"
    ELSE IF FLess(final, start) THEN "Rising"
    ELSE "Sustainable"

\* lines 132-137: the if / elif / else that chooses the message
Classify(final, start) ==
    IF FLess(FromInt(CrisisThreshold), final) THEN "Crisis"
    ELSE IF FLess(start, final) THEN "Rising"
    ELSE "Sustainable"

\* the streamlit call that shows each message (lines 133, 135, 137)
MessageCall(c) ==
    IF c = "Crisis" THEN "st.error"
    ELSE IF c = "Rising" THEN "st.warning"
    ELSE "st.success"

\* line 56 stepping the range by two
NextYear_Skip(y) == y + 2

\* line 56: the next value of range(1, years + 1) after y
NextYear(y) == y + 1

(***************************************************************************)
(* State                                                                   *)
(***************************************************************************)
VARIABLES
    sidebar,          \* the values the six sidebar widgets hold (percent)
    pc,               \* position of the script
    emitted,          \* streamlit output calls made so far, in order
    error,            \* the exception that ended the run, or "none"
    d_0_pct, i_pct, g_pct, pi_pct, tax_pct, s_pct,
    d_0, i, g, pi, tau, s,
    debt_trajectory, years_list, current_d,
    year,             \* the loop variable; 0 before the loop binds it
    df,               \* the "Debt Ratio" column of the data frame
    final_debt, start_debt, delta, r_minus_g, primary_bal,
    classification

inputVars == <<d_0_pct, i_pct, g_pct, pi_pct, tax_pct, s_pct>>
rateVars == <<d_0, i, g, pi, tau, s>>
loopVars == <<debt_trajectory, years_list, current_d, year>>
metricVars == <<final_debt, start_debt, delta, r_minus_g, primary_bal>>

vars == <<sidebar, pc, emitted, error, inputVars, rateVars, loopVars,
          df, metricVars, classification>>

\* the widget ranges of lines 20-33
InSliderRange(w) ==
    /\ FLeq(FZero, w.d_0)
    /\ FLeq(FZero, w.i) /\ FLeq(w.i, FromInt(15))
    /\ FLeq(FromInt(-5), w.g) /\ FLeq(w.g, FromInt(10))
    /\ FLeq(FromInt(-2), w.pi) /\ FLeq(w.pi, FromInt(15))
    /\ FLeq(FromInt(10), w.tax) /\ FLeq(w.tax, FromInt(60))
    /\ FLeq(FromInt(10), w.spending) /\ FLeq(w.spending, FromInt(60))

\* the values the widgets can hold in the runs explored
Widgets ==
    [d_0 : {FromInt(v) : v \in InitialDebtValues},
     i : {Dec(v, 10) : v \in InterestTenths},
     g : {Dec(v, 10) : v \in GrowthTenths},
     pi : {Dec(v, 10) : v \in InflationTenths},
     tax : {Dec(v, 2) : v \in TaxHalves},
     spending : {Dec(v, 2) : v \in SpendingHalves}]

\* the runs that start from a value at an end of the float range
ExtremeWidgets ==
    [d_0 : ExtremeDebtValues,
     i : {Dec(v, 10) : v \in ExtremeInterestTenths},
     g : {Dec(v, 10) : v \in ExtremeGrowthTenths},
     pi : {Dec(v, 10) : v \in ExtremeInflationTenths},
     tax : {Dec(v, 2) : v \in ExtremeTaxHalves},
     spending : {Dec(v, 2) : v \in ExtremeSpendingHalves}]

Init ==
    /\ sidebar \in Widgets \cup ExtremeWidgets
    /\ pc = "page"
    /\ emitted = <<>>
    /\ error = "none"
    /\ d_0_pct = Unbound /\ i_pct = Unbound /\ g_pct = Unbound
    /\ pi_pct = Unbound /\ tax_pct = Unbound /\ s_pct = Unbound
    /\ d_0 = Unbound /\ i = Unbound /\ g = Unbound
    /\ pi = Unbound /\ tau = Unbound /\ s = Unbound
    /\ debt_trajectory = <<>> /\ years_list = <<>>
    /\ current_d = Unbound /\ year = 0
    /\ df = <<>>
    /\ final_debt = Unbound /\ start_debt = Unbound /\ delta = Unbound
    /\ r_minus_g = Unbound /\ primary_bal = Unbound
    /\ classification = "none"

(***************************************************************************)
(* The script, top to bottom                                               *)
(***************************************************************************)
\* lines 6-16: page configuration, title, introduction, sidebar header
PageHeader ==
    /\ pc = "page"
    /\ emitted' = emitted \o <<"st.set_page_config", "st.title",
                               "st.markdown", "st.sidebar.header">>
    /\ pc' = "inputs"
    /\ UNCHANGED <<sidebar, error, inputVars, rateVars, loopVars,
                   df, metricVars, classification>>

\* lines 18-37: the sidebar widgets are created in order (number_input,
\* separator, three sliders, separator, two sliders) and their values read
user_input_features ==
    /\ pc = "inputs"
    /\ emitted' = emitted \o <<"st.sidebar.number_input", "st.sidebar.markdown",
                               "st.sidebar.slider", "st.sidebar.slider",
                               "st.sidebar.slider", "st.sidebar.markdown",
                               "st.sidebar.slider", "st.sidebar.slider">>
    /\ d_0_pct' = sidebar.d_0
    /\ i_pct' = sidebar.i
    /\ g_pct' = sidebar.g
    /\ pi_pct' = sidebar.pi
    /\ tax_pct' = sidebar.tax
    /\ s_pct' = sidebar.spending
    /\ pc' = "convert"
    /\ UNCHANGED <<sidebar, error, rateVars, loopVars,
                   df, metricVars, classification>>

\* lines 41-47: percentages to fractions
Convert ==
    /\ pc = "convert"
    /\ d_0' = ToFraction(d_0_pct)
    /\ i' = ToFraction(i_pct)
    /\ g' = ToFraction(g_pct)
    /\ pi' = ToFraction(pi_pct)
    /\ tau' = ToFraction(tax_pct)
    /\ s' = ToFraction(s_pct)
    /\ pc' = "setup"
    /\ UNCHANGED <<sidebar, emitted, error, inputVars, loopVars,
                   df, metricVars, classification>>

\* lines 49-55: the trajectory starts as [d_0]
ProjectionSetup ==
    /\ pc = "setup"
    /\ debt_trajectory' = <<d_0>>
    /\ years_list' = RangeList(years)
    /\ current_d' = d_0
    /\ pc' = "loop"
    /\ UNCHANGED <<sidebar, emitted, error, inputVars, rateVars, year,
                   df, metricVars, classification>>

\* lines 56-66: one iteration of `for year in range(1, years + 1)`: lines
\* 58-62 compute numerator, denominator and primary_deficit, line 64 the
\* next ratio, lines 65-66 append it and make it current.  The float
\* division of line 64 raises ZeroDivisionError for a zero denominator,
\* which ends the script (nothing catches it)
LoopStep ==
    /\ pc = "loop"
    /\ year < years
    /\ year' = NextYear(year)
    /\ \E den \in {denominator(g, pi)} :
          IF FIsZero(den)
          THEN /\ error' = "ZeroDivisionError"
               /\ pc' = "error"
               /\ UNCHANGED <<debt_trajectory, current_d>>
          ELSE /\ \E v \in {next_d(numerator(i), den, current_d,
                                     primary_deficit(s, tau))} :
                     /\ debt_trajectory' = Append(debt_trajectory, v)
                     /\ current_d' = v
               /\ UNCHANGED <<pc, error>>
    /\ UNCHANGED <<sidebar, emitted, inputVars, rateVars,
                   years_list, df, metricVars, classification>>

\* the range is exhausted; lines 69-72 build the data frame
BuildFrame ==
    /\ pc = "loop"
    /\ year >= years
    /\ df' = DebtRatioColumn(debt_trajectory)
    /\ pc' = "metrics"
    /\ UNCHANGED <<sidebar, emitted, error, inputVars, rateVars,
                   loopVars, metricVars, classification>>

\* lines 96-120: the three columns, their metrics and the chart
Metrics ==
    /\ pc = "metrics"
    /\ final_debt' = df[Len(df)]
    /\ start_debt' = df[1]
    /\ delta' = FSub(df[Len(df)], df[1])
    /\ r_minus_g' = InterestGrowthDifferential(i_pct, pi_pct, g_pct)
    /\ primary_bal' = PrimaryBalance(tax_pct, s_pct)
    /\ emitted' = emitted \o <<"st.columns", "st.metric", "st.metric",
                               "st.metric", "st.plotly_chart">>
    /\ pc' = "analysis"
    /\ UNCHANGED <<sidebar, error, inputVars, rateVars, loopVars,
                   df, classification>>

\* lines 123-137: the scenario summary and the sustainability message
Analysis ==
    /\ pc = "analysis"
    /\ classification' = Classify(final_debt, start_debt)
    /\ emitted' = emitted \o <<"st.subheader", "st.markdown",
                               MessageCall(Classify(final_debt, start_debt))>>
    /\ pc' = "formula"
    /\ UNCHANGED <<sidebar, error, inputVars, rateVars, loopVars,
                   df, metricVars>>

\* lines 139-141: the formula; the script ends
Formula ==
    /\ pc = "formula"
    /\ emitted' = Append(emitted, "st.latex")
    /\ pc' = "done"
    /\ UNCHANGED <<sidebar, error, inputVars, rateVars, loopVars,
                   df, metricVars, classification>>

Next ==
    \/ PageHeader
    \/ user_input_features
    \/ Convert
    \/ ProjectionSetup
    \/ LoopStep
    \/ BuildFrame
    \/ Metrics
    \/ Analysis
    \/ Formula

Spec == Init /\ [][Next]_vars

\* the script runs to its end without waiting on anything
FairSpec == Spec /\ WF_vars(Next)

(***************************************************************************)
(* Properties                                                              *)
(***************************************************************************)
\* the loop has ended and the rest of the script is running or has run
AfterLoop == pc \in {"metrics", "analysis", "formula", "done"}

\* the last element of a non-empty list
Last(l) == l[Len(l)]

\* the three calls that show a sustainability message
MessageCalls == {"st.error", "st.warning", "st.success"}

\* how many sustainability messages the run has shown
MessagesShown ==
    Cardinality({k \in 1 .. Len(emitted) : emitted[k] \in MessageCalls})

\* every element after the first is m * (the one before) + c
Recurrence(traj, m, c) ==
    \A t \in 1 .. Len(traj) - 1 : traj[t + 1] = FAdd(FMul(m, traj[t]), c)

\* C1: every element of the trajectory after the first equals
\* [(1+i)/((1+g)(1+pi))] * (the element before it) + (s - tau), with the
\* rates the widget percentages divided by 100, each operation being one
\* float operation; nothing else (no clamp, no explicit rounding) is applied.
C1_Recurrence ==
    /\ (pc = "loop" /\ year >= 1) =>
          debt_trajectory[year + 1] =
             FAdd(FMul(FDiv(FAdd(One, i), FMul(FAdd(One, g), FAdd(One, pi))),
                       debt_trajectory[year]),
                  FSub(s, tau))
    /\ pc = "done" =>
          \E m \in {FDiv(FAdd(One, FDiv(sidebar.i, Hundred)),
                         FMul(FAdd(One, FDiv(sidebar.g, Hundred)),
                              FAdd(One, FDiv(sidebar.pi, Hundred))))},
             c \in {FSub(FDiv(sidebar.spending, Hundred),
                         FDiv(sidebar.tax, Hundred))} :
              /\ debt_trajectory[1] = FDiv(sidebar.d_0, Hundred)
              /\ Recurrence(debt_trajectory, m, c)

\* a finished run whose trajectory goes below zero
C1_Witness ==
    /\ pc = "done"
    /\ Len(debt_trajectory) = years + 1
    /\ FLess(Last(debt_trajectory), FZero)
    /\ FLess(FZero, debt_trajectory[1])

\* C2: after k iterations the trajectory has k+1 elements and its first
\* element is the initial ratio (for k = 0 it is exactly [d0]); the
\* completed trajectory has years+1 elements, one per year 0..years in
\* order.  The script's horizon is the literal years = 20.
C2_Length ==
    /\ pc = "loop" =>
          /\ Len(debt_trajectory) = year + 1
          /\ debt_trajectory[1] = FDiv(sidebar.d_0, Hundred)
          /\ (year = 0 => debt_trajectory = <<FDiv(sidebar.d_0, Hundred)>>)
    /\ AfterLoop =>
          /\ Len(debt_trajectory) = years + 1
          /\ debt_trajectory[1] = FDiv(sidebar.d_0, Hundred)
          /\ Len(years_list) = Len(debt_trajectory)
          /\ \A k \in 1 .. Len(years_list) : years_list[k] = k - 1
          /\ Len(df) \in {0, years + 1}

\* a finished run: 21 elements for the years 0..20, the first one d0 > 0
C2_Witness ==
    /\ pc = "done"
    /\ Len(debt_trajectory) = years + 1
    /\ years_list[1] = 0 /\ Last(years_list) = years
    /\ FLess(FZero, debt_trajectory[1])
    /\ debt_trajectory[1] # Last(debt_trajectory)

\* C4: with final and initial ratio in percent (100 x fraction), the message
\* is Crisis iff final > 150, Rising iff final <= 150 and final > initial,
\* Sustainable otherwise; exactly one message is shown per run.
C4_Classification ==
    /\ pc \in {"formula", "done"} =>
          \E final \in {FMul(Last(debt_trajectory), Hundred)},
             start \in {FMul(debt_trajectory[1], Hundred)} :
              /\ classification \in {"Crisis", "Rising", "Sustainable"}
              /\ classification = "Crisis" <=>
                    FLess(FromInt(150), final)
              /\ classification = "Rising" <=>
                    (FLeq(final, FromInt(150)) /\ FLess(start, final))
              /\ classification = "Sustainable" <=>
                    (FLeq(final, FromInt(150)) /\ FLeq(final, start))
              /\ MessagesShown = 1
              /\ \E k \in 1 .. Len(emitted) :
                    emitted[k] = (IF classification = "Crisis" THEN "st.error"
                                  ELSE IF classification = "Rising"
                                       THEN "st.warning"
                                       ELSE "st.success")
    /\ pc \notin {"formula", "done"} =>
          (classification = "none" /\ MessagesShown = 0)

\* a run that ends at exactly 150 percent, from below: Rising, not Crisis
C4_Witness ==
    /\ pc = "done"
    /\ final_debt = FromInt(150)
    /\ FLess(start_debt, final_debt)
    /\ classification = "Rising"

\* C5 as stated: the metrics are in the fraction units of the trajectory
\* (final = last element, delta = final - first element,
\* differential = (i - pi) - g and balance = tau - s on the fractions).
C5_FractionUnits ==
    pc = "done" =>
        /\ final_debt = Last(debt_trajectory)
        /\ delta = FSub(Last(debt_trajectory), debt_trajectory[1])
        /\ r_minus_g = FSub(FSub(i, pi), g)
        /\ primary_bal = FSub(tau, s)

\* C5: the metrics equal their definitions in percent units: final is 100 x
\* the last element, delta = final - 100 x the first element, the
\* differential is (i - pi) - g and the balance tau - s, both computed on
\* the widget percentages.
C5_PercentUnits ==
    pc \in {"analysis", "formula", "done"} =>
        /\ final_debt = FMul(Last(debt_trajectory), Hundred)
        /\ delta = FSub(FMul(Last(debt_trajectory), Hundred),
                        FMul(debt_trajectory[1], Hundred))
        /\ r_minus_g = FSub(FSub(sidebar.i, sidebar.pi), sidebar.g)
        /\ primary_bal = FSub(sidebar.tax, sidebar.spending)

\* a finished run with a primary surplus whose final ratio is not the last
\* trajectory element
C5_Witness ==
    /\ pc = "done"
    /\ final_debt # Last(debt_trajectory)
    /\ FLess(FZero, primary_bal)
    /\ FLess(FZero, r_minus_g)

\* C6: a run either produces the full (years+1)-element trajectory or fails
\* before any output exists: no state has an error together with a partial
\* trajectory or emitted output, and a run that ends has the full trajectory.
C6_NoPartial ==
    /\ error # "none" => (debt_trajectory = <<>> /\ emitted = <<>>)
    /\ pc = "error" => error # "none"
    /\ AfterLoop => (error = "none" /\ Len(debt_trajectory) = years + 1)

\* a finished run: full trajectory, output emitted, no error
C6_Witness ==
    /\ pc = "done"
    /\ error = "none"
    /\ Len(debt_trajectory) = years + 1
    /\ Len(emitted) > 0
    /\ FIsZero(sidebar.pi)

\* the widgets hold the identity scenario i = g, pi = 0, tau = s
IdentityScenario ==
    /\ sidebar.i = sidebar.g
    /\ FIsZero(sidebar.pi)
    /\ sidebar.tax = sidebar.spending

\* C7: if i = g, pi = 0 and tau = s, every element of the trajectory equals
\* d0, so delta = 0 and the message is not Rising.
C7_Identity ==
    IdentityScenario =>
        /\ \A t \in 1 .. Len(debt_trajectory) :
              debt_trajectory[t] = FDiv(sidebar.d_0, Hundred)
        /\ pc \in {"analysis", "formula", "done"} => delta = FZero
        /\ classification # "Rising"

\* a finished identity run with non-zero rates and a positive initial ratio
C7_Witness ==
    /\ pc = "done"
    /\ IdentityScenario
    /\ FLess(FZero, sidebar.i)
    /\ FLess(FZero, debt_trajectory[1])
    /\ Len(debt_trajectory) = years + 1

\* the multiplier of line 64 is above one, the deficit s - tau is not
\* negative and the initial ratio is not negative
Diverging ==
    /\ FLess(One, FDiv(FAdd(One, i), FMul(FAdd(One, g), FAdd(One, pi))))
    /\ FLeq(tau, s)
    /\ FLeq(FZero, d_0)

\* C8: for a non-negative initial ratio, a multiplier > 1 and s - tau >= 0,
\* the trajectory is non-decreasing.
C8_NonDecreasing ==
    (pc = "loop" \/ AfterLoop) =>
        (Diverging =>
            \A t \in 1 .. Len(debt_trajectory) - 1 :
                FLeq(debt_trajectory[t], debt_trajectory[t + 1]))

\* a finished diverging run that did grow
C8_Witness ==
    /\ pc = "done"
    /\ Diverging
    /\ FLess(tau, s)
    /\ FLess(debt_trajectory[1], Last(debt_trajectory))

\* the run has the metrics and exactly one message
Finished ==
    /\ pc = "done"
    /\ year = years
    /\ Len(debt_trajectory) = years + 1
    /\ final_debt # Unbound /\ delta # Unbound
    /\ r_minus_g # Unbound /\ primary_bal # Unbound
    /\ classification \in {"Crisis", "Rising", "Sustainable"}
    /\ MessagesShown = 1

\* C9: the projection terminates: the loop visits the years 1..years in
\* increasing order, once each and one element per year, and the run then
\* reaches the state where the metrics and exactly one message exist.
C9_Terminates ==
    /\ [][year' # year =>
             /\ year' = year + 1
             /\ year' <= years
             /\ (error' = "none" =>
                    Len(debt_trajectory') = Len(debt_trajectory) + 1)]_vars
    /\ (pc = "page" ~> Finished)

\* a finished run after exactly 20 loop steps
C9_Witness ==
    /\ Finished
    /\ Len(years_list) = years + 1
    /\ Len(df) = years + 1

\* no change of the trajectory goes against the first one: after a rise it
\* never falls, after a fall it never rises, after no change it stays
SameDirection ==
    \A t \in 1 .. Len(debt_trajectory) - 1 :
        /\ FLess(debt_trajectory[1], debt_trajectory[2]) =>
              FLeq(debt_trajectory[t], debt_trajectory[t + 1])
        /\ FLess(debt_trajectory[2], debt_trajectory[1]) =>
              FLeq(debt_trajectory[t + 1], debt_trajectory[t])
        /\ debt_trajectory[1] = debt_trajectory[2] =>
              debt_trajectory[t + 1] = debt_trajectory[t]

\* C10 as stated: in a Sustainable run no yearly ratio of the trajectory
\* exceeds the initial ratio, and in a Rising run none exceeds 150% (1.5).
C10_NoRatioAbove ==
    pc = "done" =>
        /\ classification = "Sustainable" =>
              \A t \in 1 .. Len(debt_trajectory) :
                  FLeq(debt_trajectory[t], debt_trajectory[1])
        /\ classification = "Rising" =>
              \A t \in 1 .. Len(debt_trajectory) :
                  FLeq(debt_trajectory[t], Dec(3, 2))

\* C10: within the slider ranges the multiplier is >= 0 and the trajectory
\* is monotone; in a Sustainable run no yearly percentage (100 x d_t, as
\* displayed and compared) exceeds the initial percentage, and in a Rising
\* run none exceeds 150.
C10_Monotone ==
    /\ InSliderRange(sidebar)
    /\ (pc = "loop" \/ AfterLoop) =>
          FLeq(FZero, FDiv(FAdd(One, i), FMul(FAdd(One, g), FAdd(One, pi))))
    /\ Len(debt_trajectory) >= 2 => SameDirection
    /\ pc = "done" =>
          /\ classification = "Sustainable" =>
                \A t \in 1 .. Len(debt_trajectory) :
                    FLeq(FMul(debt_trajectory[t], Hundred),
                         FMul(debt_trajectory[1], Hundred))
          /\ classification = "Rising" =>
                \A t \in 1 .. Len(debt_trajectory) :
                    FLeq(FMul(debt_trajectory[t], Hundred), FromInt(150))

\* a Sustainable run whose trajectory creeps above d0 by rounding while its
\* percentages stay equal
C10_Witness ==
    /\ pc = "done"
    /\ classification = "Sustainable"
    /\ FLess(debt_trajectory[1], Last(debt_trajectory))
    /\ final_debt = start_debt

TypeOK ==
    /\ pc \in {"page", "inputs", "convert", "setup", "loop", "metrics",
               "analysis", "formula", "done", "error"}
    /\ error \in {"none", "ZeroDivisionError"}
    /\ classification \in {"none", "Crisis", "Rising", "Sustainable"}
    /\ year \in 0 .. years
====
